---------------------------- MODULE Spec2Model ----------------------------
(***************************************************************************)
(* Notification handlers of src/functions/index.js (Firebase Cloud         *)
(* Functions sending e-mail through Resend):                               *)
(*   sendInviteEmail, sendTaskAssignedEmail, sendDueDateReminders,         *)
(*   sendCommentNotification.                                              *)
(* One behaviour handles one triggering event.  Every `await` of a handler *)
(* is one step; the synchronous code between two awaits belongs to the     *)
(* step that the first await ends.                                         *)
(***************************************************************************)
EXTENDS Integers, Sequences, FiniteSets, TLC

(***************************************************************************)
(* JavaScript values.  Strings are TLA+ strings; the non-string values the *)
(* handlers test for are kept apart from every string a document holds.    *)
(***************************************************************************)
Undefined == "<undefined>"
Null      == "<null>"
JsTrue    == "<true>"
JsFalse   == "<false>"

\* ToBoolean of the values above: undefined, null, false and "" are falsy.
Truthy(v) == v \notin {Undefined, Null, JsFalse, ""}

(***************************************************************************)
(* Bounds of the model.                                                    *)
(***************************************************************************)
\* handler runs the platform starts for the one invite-created event
MaxRuns == 2

\* pieces (mentions, words) a comment's text is made of
MaxTokens == 2

\* documents in one project's tasks collection
MaxTasks == 2

Runs == 1..MaxRuns

UserIds == {"u1", "u2"}

Categories == {"taskAssigned", "dueReminders", "comments"}

VARIABLES
  event,    \* the triggering event: its kind and payload
  invite,   \* the invite document invites/{inviteId} as stored now
  clock,    \* the document store's server time
  runs,     \* sendInviteEmail: the state of each run of the handler
  loc,      \* the other handlers: position and locals of the run
  outbox    \* the calls made to resend.emails.send, in order

vars == <<event, invite, clock, runs, loc, outbox>>

(***************************************************************************)
(* User documents and the preference check                                 *)
(***************************************************************************)
\* values a field of user.emailPreferences can hold: absent, null, true,
\* false, or something else (here a string)
PrefVals == {Undefined, Null, JsTrue, JsFalse, "no"}

\* users/{id}.get() of an id that has no document
MissingUser ==
  [exists |-> FALSE, prefsKind |-> "undefined",
   prefs |-> [c \in Categories |-> Undefined]]

\* What users/{id}.get() can give a handler that checks category cat.  No
\* handler writes the users collection; every read of it is an input of
\* the step that reads.  A document's emailPreferences is absent, null, or
\* an object: its field cat takes every value, the other two fields are
\* both absent or both false.
UserDocs(cat) ==
  {MissingUser}
  \cup [exists : {TRUE}, prefsKind : {"undefined", "null"},
        prefs : {[c \in Categories |-> Undefined]}]
  \cup {[exists |-> TRUE, prefsKind |-> "object",
         prefs |-> [c \in Categories |-> IF c = cat THEN v ELSE o]] :
          v \in PrefVals, o \in {Undefined, JsFalse}}

\* user.emailPreferences?.[cat]
PrefField(user, cat) ==
  IF user.prefsKind = "object" THEN user.prefs[cat] ELSE Undefined

\* the check written as "is not true": user.emailPreferences?.<cat> !== true
PrefNotEnabled(user, cat) == PrefField(user, cat) # JsTrue

\* the handlers without the preference check
PrefIgnored(user, cat) == FALSE

\* lines 271, 402, 507: user.emailPreferences?.<cat> === false
PrefDisabled(user, cat) == PrefField(user, cat) = JsFalse

\* What a step that read user id for a check of category cat leaves behind
\* for the properties: the raw emailPreferences of the document read.
Seen(id, user, cat) ==
  [id |-> id, exists |-> user.exists, cat |-> cat,
   prefsKind |-> user.prefsKind, field |-> user.prefs[cat]]

NothingSeen ==
  [id |-> Undefined, exists |-> FALSE, cat |-> "none",
   prefsKind |-> "undefined", field |-> Undefined]

(***************************************************************************)
(* sendInviteEmail  (index.js 30-123)                                      *)
(***************************************************************************)
NoTime == 0
NoId   == 0

\* the place of a delivery call that belongs to no tenant and project
NoPlace == [tenant |-> "-", project |-> "-"]

\* What snapshot.data() gives the handler: the fields the handler reads.
SnapshotOf(doc) ==
  [exists |-> TRUE, status |-> doc.status, emailSent |-> doc.emailSent,
   invitedBy |-> doc.invitedBy, role |-> doc.role]

NoSnapshot ==
  [exists |-> FALSE, status |-> Undefined, emailSent |-> Undefined,
   invitedBy |-> Undefined, role |-> Undefined]

\* The snapshot a run is handed.  "event": the snapshot the platform
\* attached to the invite-created event (the document as created), also on
\* a re-delivery or retry of that event.  "current": the handler is called
\* with a snapshot of the document as stored now.  "none": event.data is
\* missing.
SnapshotFor(src) ==
  CASE src = "event"   -> SnapshotOf(event.created)
    [] src = "current" -> SnapshotOf(invite)
    [] OTHER           -> NoSnapshot

\* the guard without the test of status (line 46)
InviteGuardSkipsAnyStatus(snap) ==
  \/ ~snap.exists
  \/ Truthy(snap.emailSent)

\* the guard without the test of emailSent (line 52)
InviteGuardSkipsResend(snap) ==
  \/ ~snap.exists
  \/ snap.status # "pending"

\* lines 37-55: the three early returns before the try block
InviteGuardSkips(snap) ==
  \/ ~snap.exists
  \/ snap.status # "pending"
  \/ Truthy(snap.emailSent)

IdleRun ==
  [pc |-> "idle", src |-> "none", snap |-> NoSnapshot, emailId |-> NoId,
   error |-> Undefined, result |-> "none", calls |-> 0, writes |-> 0,
   docSent |-> FALSE]

\* lines 35-71: entry, guards, and the code up to the first await.
\* calls and writes count the run's delivery calls and document updates;
\* docSent tells whether the stored invite had emailSent set at the entry.
InviteStart(r, src) ==
  /\ event.kind = "invite"
  /\ runs[r].pc = "idle"
  /\ LET snap == SnapshotFor(src)
         next == IF InviteGuardSkips(snap) THEN "done"
                 ELSE IF Truthy(snap.invitedBy) THEN "lookup"
                 ELSE IF snap.role = Undefined THEN "markFailed"
                 ELSE "send"
     IN runs' = [runs EXCEPT ![r] =
                   [@ EXCEPT !.pc = next, !.src = src, !.snap = snap,
                             !.docSent = Truthy(invite.emailSent),
                             !.result = IF next = "done" THEN "null" ELSE "none",
                             !.error = IF next = "markFailed" THEN "TypeError"
                                       ELSE Undefined]]
  /\ UNCHANGED <<event, invite, clock, loc, outbox>>

\* lines 63-74: the inviter's user document is read (it only feeds the
\* inviter's name into the e-mail body), then invite.role.charAt(0)
InviteLookup(r, ok) ==
  /\ runs[r].pc = "lookup"
  /\ runs' = [runs EXCEPT ![r] =
       IF ~ok THEN [@ EXCEPT !.pc = "markFailed", !.error = "lookup failed"]
       ELSE IF @.snap.role = Undefined
            THEN [@ EXCEPT !.pc = "markFailed", !.error = "TypeError"]
       ELSE [@ EXCEPT !.pc = "send"]]
  /\ UNCHANGED <<event, invite, clock, loc, outbox>>

\* The delivery service's answers: {data}, {error}, or a rejected promise.
SendOutcomes == {"ok", "error", "throw"}

Delivery(handler, r, to, n, where, outcome) ==
  [handler |-> handler, run |-> r, to |-> to, n |-> n, where |-> where,
   ok |-> (outcome = "ok"), id |-> Len(outbox) + 1]

\* lines 77-101 without the test of the answer's error (lines 96-99)
InviteSendIgnoresError(r, outcome) ==
  /\ runs[r].pc = "send"
  /\ outbox' = Append(outbox, Delivery("invite", r, "invitee", 1, NoPlace, outcome))
  /\ runs' = [runs EXCEPT ![r] =
       IF outcome # "throw"
       THEN [@ EXCEPT !.pc = "markSent", !.emailId = Len(outbox) + 1,
                      !.calls = @ + 1]
       ELSE [@ EXCEPT !.pc = "markFailed", !.error = "delivery failed",
                      !.calls = @ + 1]]
  /\ UNCHANGED <<event, invite, clock, loc>>

\* lines 77-108 with the delivery and the update of emailSent made one step
InviteSendRecords(r, outcome) ==
  /\ runs[r].pc = "send"
  /\ outbox' = Append(outbox, Delivery("invite", r, "invitee", 1, NoPlace, outcome))
  /\ runs' = [runs EXCEPT ![r] =
       IF outcome = "ok"
       THEN [@ EXCEPT !.pc = "markSent", !.emailId = Len(outbox) + 1,
                      !.calls = @ + 1]
       ELSE [@ EXCEPT !.pc = "markFailed", !.error = "delivery failed",
                      !.calls = @ + 1]]
  /\ invite' = IF outcome = "ok" THEN [invite EXCEPT !.emailSent = JsTrue]
               ELSE invite
  /\ UNCHANGED <<event, clock, loc>>

\* lines 77-101: resend.emails.send and the check of its answer
InviteSend(r, outcome) ==
  /\ runs[r].pc = "send"
  /\ outbox' = Append(outbox, Delivery("invite", r, "invitee", 1, NoPlace, outcome))
  /\ runs' = [runs EXCEPT ![r] =
       IF outcome = "ok"
       THEN [@ EXCEPT !.pc = "markSent", !.emailId = Len(outbox) + 1,
                      !.calls = @ + 1]
       ELSE [@ EXCEPT !.pc = "markFailed", !.error = "delivery failed",
                      !.calls = @ + 1]]
  /\ UNCHANGED <<event, invite, clock, loc>>

\* lines 104-110 with an error raised after the update was made
InviteMarkSentThenThrows(r, ok) ==
  /\ runs[r].pc = "markSent"
  /\ IF ok
     THEN /\ invite' = [invite EXCEPT !.emailSent = JsTrue,
                                      !.emailSentAt = clock,
                                      !.emailId = runs[r].emailId]
          /\ clock' = clock + 1
          /\ runs' = [runs EXCEPT ![r] = [@ EXCEPT !.pc = "markFailed",
                                                   !.error = "after update",
                                                   !.writes = @ + 1]]
     ELSE /\ runs' = [runs EXCEPT ![r] = [@ EXCEPT !.pc = "markFailed",
                                                   !.error = "update failed",
                                                   !.writes = @ + 1]]
          /\ UNCHANGED <<invite, clock>>
  /\ UNCHANGED <<event, loc, outbox>>

\* the update of lines 104-108 with a status field added to it
InviteMarkSentAccepts(r, ok) ==
  /\ runs[r].pc = "markSent"
  /\ IF ok
     THEN /\ invite' = [invite EXCEPT !.emailSent = JsTrue,
                                      !.emailSentAt = clock,
                                      !.emailId = runs[r].emailId,
                                      !.status = "accepted"]
          /\ clock' = clock + 1
          /\ runs' = [runs EXCEPT ![r] = [@ EXCEPT !.pc = "done",
                                                   !.result = "success",
                                                   !.writes = @ + 1]]
     ELSE /\ runs' = [runs EXCEPT ![r] = [@ EXCEPT !.pc = "markFailed",
                                                   !.error = "update failed",
                                                   !.writes = @ + 1]]
          /\ UNCHANGED <<invite, clock>>
  /\ UNCHANGED <<event, loc, outbox>>

\* lines 104-110: snapshot.ref.update({emailSent, emailSentAt, emailId})
InviteMarkSent(r, ok) ==
  /\ runs[r].pc = "markSent"
  /\ IF ok
     THEN /\ invite' = [invite EXCEPT !.emailSent = JsTrue,
                                      !.emailSentAt = clock,
                                      !.emailId = runs[r].emailId]
          /\ clock' = clock + 1
          /\ runs' = [runs EXCEPT ![r] = [@ EXCEPT !.pc = "done",
                                                   !.result = "success",
                                                   !.writes = @ + 1]]
     ELSE /\ runs' = [runs EXCEPT ![r] = [@ EXCEPT !.pc = "markFailed",
                                                   !.error = "update failed",
                                                   !.writes = @ + 1]]
          /\ UNCHANGED <<invite, clock>>
  /\ UNCHANGED <<event, loc, outbox>>

\* lines 111-121: the catch block: snapshot.ref.update({emailError,
\* emailAttemptedAt}); a failure of this update leaves the handler as a
\* rejected promise
InviteMarkFailed(r, ok) ==
  /\ runs[r].pc = "markFailed"
  /\ IF ok
     THEN /\ invite' = [invite EXCEPT !.emailError = runs[r].error,
                                      !.emailAttemptedAt = clock]
          /\ clock' = clock + 1
          /\ runs' = [runs EXCEPT ![r] = [@ EXCEPT !.pc = "done",
                                                   !.result = "failure",
                                                   !.writes = @ + 1]]
     ELSE /\ runs' = [runs EXCEPT ![r] = [@ EXCEPT !.pc = "done",
                                                   !.result = "threw",
                                                   !.writes = @ + 1]]
          /\ UNCHANGED <<invite, clock>>
  /\ UNCHANGED <<event, loc, outbox>>

\* The process running the handler stops while the run waits at an await.
InviteCrash(r) ==
  /\ runs[r].pc \in {"lookup", "send", "markSent", "markFailed"}
  /\ runs' = [runs EXCEPT ![r] = [@ EXCEPT !.pc = "crashed"]]
  /\ UNCHANGED <<event, invite, clock, loc, outbox>>

(***************************************************************************)
(* sendTaskAssignedEmail  (index.js 239-330)                               *)
(***************************************************************************)
\* no task document was read by the last step
NoTaskRead ==
  [doc |-> [assignedTo |-> Undefined, dueDate |-> 0, status |-> "done"],
   id |-> 0, where |-> NoPlace]

\* The run of a handler other than sendInviteEmail, as the platform starts
\* it.  reads counts document reads; seen and gate are the user document
\* the last step read, if it read one, and what the preference check made
\* of it, skipped the users passed over for a missing document or a
\* disabled preference; t, p, left and groups are
\* sendDueDateReminders' place in the tenants and projects, the documents
\* of the task query still to be grouped and tasksByAssignee, found the
\* tasks grouped so far in the run and last the task document the last
\* step read, if it read one; notify and queue are the
\* recipients sendCommentNotification collected and has still to handle.
StartLoc ==
  [pc |-> "start", result |-> "none", reads |-> 0,
   seen |-> NothingSeen, gate |-> "none", skipped |-> {},
   resolved |-> FALSE, notify |-> <<>>, queue |-> <<>>,
   t |-> 0, p |-> 0, left |-> 0, groups |-> <<>>, found |-> {},
   last |-> NoTaskRead]

\* the guard without the comparison of the two assignees (line 249)
TaskGuardSkipsUnchanged(before, after) ==
  ~Truthy(after.assignedTo)

\* lines 249-256: the two early returns
TaskGuardSkips(before, after) ==
  \/ before.assignedTo = after.assignedTo
  \/ ~Truthy(after.assignedTo)

\* lines 245-258: entry and guards
TaskStart ==
  /\ event.kind = "task"
  /\ loc.pc = "start"
  /\ loc' = IF TaskGuardSkips(event.before, event.after)
            THEN [loc EXCEPT !.pc = "done", !.result = "null"]
            ELSE [loc EXCEPT !.pc = "getUser"]
  /\ UNCHANGED <<event, invite, clock, runs, outbox>>

\* lines 262-274: the assignee's user document and the preference check
TaskGetUser(ok, user) ==
  /\ event.kind = "task"
  /\ loc.pc = "getUser"
  /\ LET id == event.after.assignedTo
         l  == [loc EXCEPT !.reads = @ + 1]
         k  == [l EXCEPT !.seen = Seen(id, user, "taskAssigned")]
     IN loc' =
          IF ~ok THEN [l EXCEPT !.pc = "done", !.result = "failure"]
          ELSE IF ~user.exists
               THEN [k EXCEPT !.pc = "done", !.result = "null",
                              !.skipped = @ \cup {id}]
          ELSE IF PrefDisabled(user, "taskAssigned")
               THEN [k EXCEPT !.pc = "done", !.result = "null",
                              !.skipped = @ \cup {id}, !.gate = "filtered"]
          ELSE [k EXCEPT !.pc = "getProject", !.gate = "passed"]
  /\ UNCHANGED <<event, invite, clock, runs, outbox>>

\* lines 277-280: the project document (a missing one gives a placeholder)
TaskGetProject(ok) ==
  /\ event.kind = "task"
  /\ loc.pc = "getProject"
  /\ loc' = IF ok THEN [loc EXCEPT !.pc = "getTenant", !.reads = @ + 1]
            ELSE [loc EXCEPT !.pc = "done", !.result = "failure",
                             !.reads = @ + 1]
  /\ UNCHANGED <<event, invite, clock, runs, outbox>>

\* lines 282-289: the tenant document, then the test of after.updatedBy
TaskGetTenant(ok) ==
  /\ event.kind = "task"
  /\ loc.pc = "getTenant"
  /\ loc' = IF ~ok THEN [loc EXCEPT !.pc = "done", !.result = "failure",
                                    !.reads = @ + 1]
            ELSE IF Truthy(event.after.updatedBy)
                 THEN [loc EXCEPT !.pc = "getAssigner", !.reads = @ + 1]
            ELSE [loc EXCEPT !.pc = "send", !.reads = @ + 1]
  /\ UNCHANGED <<event, invite, clock, runs, outbox>>

\* lines 290-296: the assigner's user document (it only feeds a name)
TaskGetAssigner(ok) ==
  /\ event.kind = "task"
  /\ loc.pc = "getAssigner"
  /\ loc' = IF ok THEN [loc EXCEPT !.pc = "send", !.reads = @ + 1]
            ELSE [loc EXCEPT !.pc = "done", !.result = "failure",
                             !.reads = @ + 1]
  /\ UNCHANGED <<event, invite, clock, runs, outbox>>

\* lines 300-328: resend.emails.send; its answer is not looked at, only a
\* rejected promise reaches the catch block
TaskSend(outcome) ==
  /\ event.kind = "task"
  /\ loc.pc = "send"
  /\ outbox' = Append(outbox, Delivery("task", 1, event.after.assignedTo, 1,
                                       NoPlace, outcome))
  /\ loc' = IF outcome = "throw"
            THEN [loc EXCEPT !.pc = "done", !.result = "failure"]
            ELSE [loc EXCEPT !.pc = "done", !.result = "success"]
  /\ UNCHANGED <<event, invite, clock, runs>>

(***************************************************************************)
(* sendDueDateReminders  (index.js 336-433)                                *)
(***************************************************************************)
\* The tenants collection and each tenant's projects, in the order the two
\* collection reads give them: two projects of one tenant, or one project
\* in each of two tenants.
Tenants == <<"t1", "t2">>

ProjectTrees ==
  {[t1 |-> <<"p1", "p2">>, t2 |-> <<>>], [t1 |-> <<"p1">>, t2 |-> <<"p1">>]}

ProjectsOf(tenant) == event.projects[tenant]

\* A task document: dueDate in days from today 00:00 (a day before, today,
\* tomorrow, the day after tomorrow 00:00 or later).
TaskDocs ==
  [assignedTo : {Undefined} \cup UserIds, dueDate : {-1, 0, 1, 2},
   status : {"todo", "done"}]

\* the query without its upper bound on dueDate (line 373)
QualifiesLate(task) ==
  /\ task.dueDate >= 0
  /\ task.status # "done"

\* lines 372-374: the three where clauses of the task query
Qualifies(task) ==
  /\ task.dueDate >= 0
  /\ task.dueDate < 2
  /\ task.status # "done"

\* every task opens an entry of its own: no grouping by assignee
GroupTaskApart(groups, userId, taskId) ==
  Append(groups, [user |-> userId, tasks |-> <<taskId>>])

\* lines 381-390: tasksByAssignee[assignedTo].push(task), keys in the order
\* they were first set
GroupTask(groups, userId, taskId) ==
  IF \E i \in 1..Len(groups) : groups[i].user = userId
  THEN [i \in 1..Len(groups) |->
          IF groups[i].user = userId
          THEN [groups[i] EXCEPT !.tasks = Append(@, taskId)]
          ELSE groups[i]]
  ELSE Append(groups, [user |-> userId, tasks |-> <<taskId>>])

ReminderFails(l) == [l EXCEPT !.pc = "done", !.result = "failure"]

\* lines 354-363, 424-427: the next project of the tenant, else the next
\* tenant, else the end of the run
ReminderNextProject(l) ==
  IF l.p < Len(ProjectsOf(Tenants[l.t]))
  THEN [l EXCEPT !.pc = "queryTasks", !.p = @ + 1, !.groups = <<>>]
  ELSE IF l.t < Len(Tenants)
       THEN [l EXCEPT !.pc = "getProjects", !.t = @ + 1, !.p = 0,
                      !.groups = <<>>]
  ELSE [l EXCEPT !.pc = "done", !.result = "success", !.groups = <<>>]

\* lines 395, 423: the next entry of tasksByAssignee, else the next project
ReminderNextUser(l) ==
  IF Len(l.groups) <= 1 THEN ReminderNextProject(l)
  ELSE [l EXCEPT !.pc = "getUser", !.groups = Tail(@)]

\* lines 343-356: the tenants collection is read
ReminderGetTenants(ok) ==
  /\ event.kind = "reminder"
  /\ loc.pc = "start"
  /\ LET l == [loc EXCEPT !.reads = @ + 1]
     IN loc' = IF ~ok THEN ReminderFails(l)
               ELSE IF Tenants = <<>>
                    THEN [l EXCEPT !.pc = "done", !.result = "success"]
               ELSE [l EXCEPT !.pc = "getProjects", !.t = 1]
  /\ UNCHANGED <<event, invite, clock, runs, outbox>>

\* lines 359-365: the tenant's projects collection is read
ReminderGetProjects(ok) ==
  /\ event.kind = "reminder"
  /\ loc.pc = "getProjects"
  /\ LET l == [loc EXCEPT !.reads = @ + 1, !.seen = NothingSeen,
                          !.gate = "none", !.last = NoTaskRead]
     IN loc' = IF ~ok THEN ReminderFails(l) ELSE ReminderNextProject(l)
  /\ UNCHANGED <<event, invite, clock, runs, outbox>>

\* lines 368-378: the task query of the project is run; the project's
\* tasks collection holds n documents
ReminderQueryTasks(ok, n) ==
  /\ event.kind = "reminder"
  /\ loc.pc = "queryTasks"
  /\ LET l == [loc EXCEPT !.reads = @ + 1, !.seen = NothingSeen,
                          !.gate = "none", !.last = NoTaskRead]
     IN loc' = IF ~ok THEN ReminderFails(l)
               ELSE IF n = 0 THEN ReminderNextProject(l)
               ELSE [l EXCEPT !.pc = "group", !.left = n]
  /\ UNCHANGED <<event, invite, clock, runs, outbox>>

\* lines 372-395: one document of the tasks collection: the query keeps it
\* or not, forEach groups it by assignee; after the last one the loop over
\* the assignees is entered
ReminderGroupTask(task) ==
  /\ event.kind = "reminder"
  /\ loc.pc = "group"
  /\ LET taskId == loc.left
         keep   == Qualifies(task) /\ Truthy(task.assignedTo)
         where  == [tenant |-> Tenants[loc.t],
                    project |-> ProjectsOf(Tenants[loc.t])[loc.p]]
         k == [loc EXCEPT !.left = @ - 1,
                          !.last = [doc |-> task, id |-> taskId,
                                    where |-> where]]
         l == IF keep
              THEN [k EXCEPT
                      !.groups = GroupTask(@, task.assignedTo, taskId),
                      !.found = @ \cup {[where |-> where, id |-> taskId,
                                         assignedTo |-> task.assignedTo]}]
              ELSE k
     IN loc' = IF l.left > 0 THEN l
               ELSE IF l.groups = <<>> THEN ReminderNextProject(l)
               ELSE [l EXCEPT !.pc = "getUser"]
  /\ UNCHANGED <<event, invite, clock, runs, outbox>>

\* lines 396-402: the assignee's user document and the preference check
ReminderGetUser(ok, user) ==
  /\ event.kind = "reminder"
  /\ loc.pc = "getUser"
  /\ LET id == Head(loc.groups).user
         l  == [loc EXCEPT !.reads = @ + 1, !.gate = "none",
                           !.seen = NothingSeen, !.last = NoTaskRead]
         k  == [l EXCEPT !.seen = Seen(id, user, "dueReminders")]
     IN loc' = IF ~ok THEN ReminderFails(l)
               ELSE IF ~user.exists
                    THEN ReminderNextUser([k EXCEPT !.skipped = @ \cup {id}])
               ELSE IF PrefDisabled(user, "dueReminders")
                    THEN ReminderNextUser([k EXCEPT !.skipped = @ \cup {id},
                                                    !.gate = "filtered"])
               ELSE [k EXCEPT !.pc = "send", !.gate = "passed"]
  /\ UNCHANGED <<event, invite, clock, runs, outbox>>

\* lines 404-423: resend.emails.send of the digest; its answer is not
\* looked at, only a rejected promise reaches the catch block
ReminderSend(outcome) ==
  /\ event.kind = "reminder"
  /\ loc.pc = "send"
  /\ LET g == Head(loc.groups)
     IN outbox' = Append(outbox,
                    Delivery("reminder", 1, g.user, Len(g.tasks),
                             [tenant |-> Tenants[loc.t],
                              project |-> ProjectsOf(Tenants[loc.t])[loc.p]],
                             outcome))
  /\ LET l == [loc EXCEPT !.seen = NothingSeen, !.gate = "none"]
     IN loc' = IF outcome = "throw" THEN ReminderFails(l)
               ELSE ReminderNextUser(l)
  /\ UNCHANGED <<event, invite, clock, runs>>

(***************************************************************************)
(* sendCommentNotification  (index.js 439-538)                             *)
(***************************************************************************)
\* A text is a sequence of characters.
RECURSIVE Join(_)
Join(chars) == IF chars = <<>> THEN "" ELSE Head(chars) \o Join(Tail(chars))

\* the first position from i on that holds stop; Len(text) + 1 if none
RECURSIVE RunEnd(_, _, _)
RunEnd(text, i, stop) ==
  IF i > Len(text) \/ text[i] = stop THEN i ELSE RunEnd(text, i + 1, stop)

\* line 489: /@\[([^\]]+)\]\(([^)]+)\)/ tried at position i.  [^\]]+ runs
\* to the first "]" and [^)]+ to the first ")"; both must be non-empty.
MatchAt(text, i) ==
  LET j == RunEnd(text, i + 2, "]")
      k == RunEnd(text, j + 2, ")")
  IN IF /\ i + 1 <= Len(text)
        /\ text[i] = "@"
        /\ text[i + 1] = "["
        /\ j > i + 2
        /\ j + 1 <= Len(text)
        /\ text[j + 1] = "("
        /\ k > j + 2
        /\ k <= Len(text)
     THEN [ok |-> TRUE, id |-> Join(SubSeq(text, j + 2, k - 1)), end |-> k + 1]
     ELSE [ok |-> FALSE, id |-> "", end |-> i]

\* lines 490-491: mentionRegex.exec(comment.text) from lastIndex = from:
\* the leftmost match at or after from
RECURSIVE ExecFrom(_, _)
ExecFrom(text, from) ==
  IF from > Len(text) THEN [ok |-> FALSE, id |-> "", end |-> from]
  ELSE IF MatchAt(text, from).ok THEN MatchAt(text, from)
  ELSE ExecFrom(text, from + 1)

\* add(x) on an array instead of a Set: no de-duplication
AddUserAgain(set, x) == Append(set, x)

\* usersToNotify.add(x) on a Set kept in insertion order
AddUser(set, x) ==
  IF \E i \in 1..Len(set) : set[i] = x THEN set ELSE Append(set, x)

\* lines 491-496: the while loop over the matches
RECURSIVE AddMentions(_, _, _, _)
AddMentions(set, text, from, createdBy) ==
  LET m == ExecFrom(text, from)
  IN IF ~m.ok THEN set
     ELSE AddMentions(IF m.id # createdBy THEN AddUser(set, m.id) ELSE set,
                      text, m.end, createdBy)

\* lines 481-496: the assignee unless the commenter, then the mentions
UsersToNotify(task, comment) ==
  AddMentions(IF Truthy(task.assignedTo) /\ task.assignedTo # comment.createdBy
              THEN <<task.assignedTo>> ELSE <<>>,
              comment.text, 1, comment.createdBy)

\* lines 481-500: the recipients are collected and the loop is entered
CommentResolve(l) ==
  LET list == UsersToNotify(event.task, event.comment)
  IN IF list = <<>>
     THEN [l EXCEPT !.pc = "done", !.result = "success", !.resolved = TRUE]
     ELSE [l EXCEPT !.pc = "getUser", !.resolved = TRUE, !.notify = list,
                    !.queue = list]

CommentFails(l) == [l EXCEPT !.pc = "done", !.result = "failure"]

\* lines 500, 530-532: the next recipient, or the end of the loop
CommentNextUser(l) ==
  IF Len(l.queue) <= 1
  THEN [l EXCEPT !.pc = "done", !.result = "success", !.queue = <<>>]
  ELSE [l EXCEPT !.pc = "getUser", !.queue = Tail(@)]

\* lines 445-457: the task document
CommentGetTask(ok) ==
  /\ event.kind = "comment"
  /\ loc.pc = "start"
  /\ LET l == [loc EXCEPT !.reads = @ + 1]
     IN loc' = IF ~ok THEN CommentFails(l)
               ELSE IF ~event.task.exists
                    THEN [l EXCEPT !.pc = "done", !.result = "null"]
               ELSE [l EXCEPT !.pc = "getProject"]
  /\ UNCHANGED <<event, invite, clock, runs, outbox>>

\* lines 460-463: the project document
CommentGetProject(ok) ==
  /\ event.kind = "comment"
  /\ loc.pc = "getProject"
  /\ LET l == [loc EXCEPT !.reads = @ + 1]
     IN loc' = IF ok THEN [l EXCEPT !.pc = "getTenant"] ELSE CommentFails(l)
  /\ UNCHANGED <<event, invite, clock, runs, outbox>>

\* lines 464-471: the tenant document, then the test of comment.createdBy
CommentGetTenant(ok) ==
  /\ event.kind = "comment"
  /\ loc.pc = "getTenant"
  /\ LET l == [loc EXCEPT !.reads = @ + 1]
     IN loc' = IF ~ok THEN CommentFails(l)
               ELSE IF Truthy(event.comment.createdBy)
                    THEN [l EXCEPT !.pc = "getCommenter"]
               ELSE CommentResolve(l)
  /\ UNCHANGED <<event, invite, clock, runs, outbox>>

\* lines 472-498: the commenter's user document (it only feeds a name)
CommentGetCommenter(ok) ==
  /\ event.kind = "comment"
  /\ loc.pc = "getCommenter"
  /\ LET l == [loc EXCEPT !.reads = @ + 1]
     IN loc' = IF ok THEN CommentResolve(l) ELSE CommentFails(l)
  /\ UNCHANGED <<event, invite, clock, runs, outbox>>

\* lines 501-507 with the missing document thrown instead of passed over
CommentGetUserMissThrows(ok, user) ==
  /\ event.kind = "comment"
  /\ loc.pc = "getUser"
  /\ LET id == Head(loc.queue)
         l  == [loc EXCEPT !.reads = @ + 1, !.gate = "none",
                           !.seen = NothingSeen]
         k  == [l EXCEPT !.seen = Seen(id, user, "comments")]
     IN loc' = IF ~ok THEN CommentFails(l)
               ELSE IF ~user.exists
                    THEN CommentFails([k EXCEPT !.skipped = @ \cup {id}])
               ELSE IF PrefDisabled(user, "comments")
                    THEN CommentNextUser([k EXCEPT !.skipped = @ \cup {id},
                                                   !.gate = "filtered"])
               ELSE [k EXCEPT !.pc = "send", !.gate = "passed"]
  /\ UNCHANGED <<event, invite, clock, runs, outbox>>

\* lines 501-507: the recipient's user document and the preference check
CommentGetUser(ok, user) ==
  /\ event.kind = "comment"
  /\ loc.pc = "getUser"
  /\ LET id == Head(loc.queue)
         l  == [loc EXCEPT !.reads = @ + 1, !.gate = "none",
                           !.seen = NothingSeen]
         k  == [l EXCEPT !.seen = Seen(id, user, "comments")]
     IN loc' = IF ~ok THEN CommentFails(l)
               ELSE IF ~user.exists
                    THEN CommentNextUser([k EXCEPT !.skipped = @ \cup {id}])
               ELSE IF PrefDisabled(user, "comments")
                    THEN CommentNextUser([k EXCEPT !.skipped = @ \cup {id},
                                                   !.gate = "filtered"])
               ELSE [k EXCEPT !.pc = "send", !.gate = "passed"]
  /\ UNCHANGED <<event, invite, clock, runs, outbox>>

\* lines 509-530 with a delivery that did not succeed tried a second time
CommentSendRetries(outcome) ==
  /\ event.kind = "comment"
  /\ loc.pc = "send"
  /\ outbox' = Append(outbox, Delivery("comment", 1, Head(loc.queue), 1,
                                       NoPlace, outcome))
  /\ loc' = IF outcome # "ok" /\ \A i \in 1..Len(outbox) :
                                    outbox[i].to # Head(loc.queue)
            THEN loc
            ELSE IF outcome = "throw" THEN CommentFails(loc)
            ELSE CommentNextUser(loc)
  /\ UNCHANGED <<event, invite, clock, runs>>

\* lines 509-530: resend.emails.send; its answer is not looked at, only a
\* rejected promise reaches the catch block
CommentSend(outcome) ==
  /\ event.kind = "comment"
  /\ loc.pc = "send"
  /\ outbox' = Append(outbox, Delivery("comment", 1, Head(loc.queue), 1,
                                       NoPlace, outcome))
  /\ loc' = IF outcome = "throw" THEN CommentFails(loc)
            ELSE CommentNextUser(loc)
  /\ UNCHANGED <<event, invite, clock, runs>>

(***************************************************************************)
(* Events                                                                  *)
(***************************************************************************)
InviteDocs ==
  [status : {"pending", "accepted"}, emailSent : {Undefined, JsFalse},
   emailSentAt : {NoTime}, emailId : {NoId}, emailError : {Undefined},
   emailAttemptedAt : {NoTime}, invitedBy : {Undefined, "u1"},
   role : {Undefined, "member"}]

\* an invite document that no event of the behaviour is about
NoInvite == CHOOSE d \in InviteDocs : d.status = "accepted"

NoLoc == [StartLoc EXCEPT !.pc = "none"]

\* invites/{inviteId} has just been created
InitInvite ==
  /\ invite \in InviteDocs
  /\ event = [kind |-> "invite", created |-> invite]
  /\ loc = NoLoc

\* values of a task's assignedTo and updatedBy
AssignVals == {Undefined, Null, ""} \cup UserIds

\* tenants/{t}/projects/{p}/tasks/{taskId} has just been updated
InitTask ==
  /\ event \in [kind : {"task"}, before : [assignedTo : AssignVals],
                after : [assignedTo : AssignVals,
                         updatedBy : {Undefined} \cup UserIds]]
  /\ invite = NoInvite
  /\ loc = StartLoc

\* The pieces a comment's text is put together from: a mention of u1, a
\* mention of u2, a word, and an "@" that starts no mention.
Mention(a, b) == <<"@", "[", "B", "o", "b", "]", "(", a, b, ")">>

Pieces ==
  [m1 |-> Mention("u", "1"), m2 |-> Mention("u", "2"),
   w |-> <<"h", "i", " ">>, a |-> <<"@", "B", "(", "u", "2", ")">>]

PieceLists == UNION {[1..n -> DOMAIN Pieces] : n \in 0..MaxTokens}

RECURSIVE TextOf(_)
TextOf(ps) == IF ps = <<>> THEN <<>> ELSE Pieces[Head(ps)] \o TextOf(Tail(ps))

\* the users the mentions of a list of pieces name
MentionedIn(ps) ==
  {Join(SubSeq(Pieces[ps[i]], 8, 9)) : i \in {j \in 1..Len(ps) : ps[j] \in {"m1", "m2"}}}

\* tenants/{t}/projects/{p}/tasks/{taskId}/comments/{commentId} has just
\* been created
InitComment ==
  /\ \E ps \in PieceLists, by \in {Undefined, "u1"},
        task \in [exists : {TRUE}, assignedTo : {Undefined, ""} \cup UserIds]
                 \cup [exists : {FALSE}, assignedTo : {Undefined}] :
       event = [kind |-> "comment",
                comment |-> [text |-> TextOf(ps), createdBy |-> by],
                mentioned |-> MentionedIn(ps),
                task |-> task]
  /\ invite = NoInvite
  /\ loc = StartLoc

\* the daily schedule fires
InitReminder ==
  /\ event \in [kind : {"reminder"}, projects : ProjectTrees]
  /\ invite = NoInvite
  /\ loc = StartLoc

Init ==
  /\ \/ InitInvite
     \/ InitTask
     \/ InitComment
     \/ InitReminder
  /\ clock = 1
  /\ runs = [r \in Runs |-> IdleRun]
  /\ outbox = <<>>

Next ==
  \/ \E r \in Runs, src \in {"event", "current", "none"} : InviteStart(r, src)
  \/ \E r \in Runs, ok \in BOOLEAN : InviteLookup(r, ok)
  \/ \E r \in Runs, o \in SendOutcomes : InviteSend(r, o)
  \/ \E r \in Runs, ok \in BOOLEAN : InviteMarkSent(r, ok)
  \/ \E r \in Runs, ok \in BOOLEAN : InviteMarkFailed(r, ok)
  \/ \E r \in Runs : InviteCrash(r)
  \/ TaskStart
  \/ \E ok \in BOOLEAN, user \in UserDocs("taskAssigned") : TaskGetUser(ok, user)
  \/ \E ok \in BOOLEAN : TaskGetProject(ok)
  \/ \E ok \in BOOLEAN : TaskGetTenant(ok)
  \/ \E ok \in BOOLEAN : TaskGetAssigner(ok)
  \/ \E o \in SendOutcomes : TaskSend(o)
  \/ \E ok \in BOOLEAN : ReminderGetTenants(ok)
  \/ \E ok \in BOOLEAN : ReminderGetProjects(ok)
  \/ \E ok \in BOOLEAN, n \in 0..MaxTasks : ReminderQueryTasks(ok, n)
  \/ \E task \in TaskDocs : ReminderGroupTask(task)
  \/ \E ok \in BOOLEAN, user \in UserDocs("dueReminders") : ReminderGetUser(ok, user)
  \/ \E o \in SendOutcomes : ReminderSend(o)
  \/ \E ok \in BOOLEAN : CommentGetTask(ok)
  \/ \E ok \in BOOLEAN : CommentGetProject(ok)
  \/ \E ok \in BOOLEAN : CommentGetTenant(ok)
  \/ \E ok \in BOOLEAN : CommentGetCommenter(ok)
  \/ \E ok \in BOOLEAN, user \in UserDocs("comments") : CommentGetUser(ok, user)
  \/ \E o \in SendOutcomes : CommentSend(o)

Spec == Init /\ [][Next]_vars

(***************************************************************************)
(* Properties                                                              *)
(***************************************************************************)
Started(r) == runs[r].pc # "idle"

CallsOf(r) == {i \in 1..Len(outbox) : outbox[i].run = r}

OkCalls == {i \in 1..Len(outbox) : outbox[i].ok}

\* C1: a run of sendInviteEmail whose snapshot has a status other than
\* "pending", or emailSent already true, returns at once: no delivery
\* call, no document update, the invite left as it was.
C1_GuardSkip ==
  \A r \in Runs :
    (/\ Started(r)
     /\ runs[r].snap.exists
     /\ \/ runs[r].snap.status # "pending"
        \/ runs[r].snap.emailSent = JsTrue)
    => /\ runs[r].pc = "done"
       /\ runs[r].result = "null"
       /\ CallsOf(r) = {}
       /\ runs[r].calls = 0
       /\ runs[r].writes = 0

C1_Witness ==
  \E r \in Runs :
    /\ runs[r].pc = "done"
    /\ runs[r].snap.status = "pending"
    /\ runs[r].snap.emailSent = JsTrue

\* C2: two calls of sendInviteEmail one after the other on the same invite,
\* the first delivering and writing emailSent = true, the second handed the
\* document as stored then: one delivery call in all, made by the first;
\* the second returns at the guard.
C2_SecondCallSkips ==
  \A r1, r2 \in Runs :
    (/\ r1 # r2
     /\ runs[r1].result = "success"
     /\ Started(r2)
     /\ runs[r2].src = "current"
     /\ runs[r2].docSent
     /\ \A r3 \in Runs \ {r1, r2} : ~Started(r3))
    => /\ Len(outbox) = 1
       /\ outbox[1].run = r1
       /\ runs[r2].result = "null"

C2_Witness ==
  \E r1, r2 \in Runs :
    /\ r1 # r2
    /\ runs[r1].result = "success"
    /\ runs[r2].src = "current"
    /\ runs[r2].docSent
    /\ runs[r2].pc = "done"
    /\ Len(outbox) = 1

\* C3: once emailSent = true is stored on the invite, a run started by a
\* re-delivery or retry of the invite-created event (handed the snapshot
\* attached to that event) makes no delivery call.
C3_RetryDoesNotResend ==
  \A r \in Runs :
    (Started(r) /\ runs[r].src = "event" /\ runs[r].docSent)
    => runs[r].calls = 0

\* C4: over all interleavings of the runs for one invite, at most one
\* delivery call succeeds.
C4_AtMostOneDelivery == Cardinality(OkCalls) <= 1

\* C5: a task update that leaves assignedTo as it was, or whose new
\* assignedTo is empty or absent, ends sendTaskAssignedEmail at the guard:
\* no delivery call, no document read, no document update.
C5_TaskGuardSkip ==
  (/\ event.kind = "task"
   /\ loc.pc # "start"
   /\ \/ event.before.assignedTo = event.after.assignedTo
      \/ event.after.assignedTo \in {Undefined, Null, ""})
  => /\ loc.pc = "done"
     /\ loc.result = "null"
     /\ outbox = <<>>
     /\ loc.reads = 0
     /\ invite = NoInvite
     /\ clock = 1

C5_Witness ==
  /\ event.kind = "task"
  /\ loc.pc = "done"
  /\ event.before.assignedTo = "u1"
  /\ event.after.assignedTo = "u1"

\* C6: a task update in which the new assignee is the updater makes no
\* delivery call.
C6_NoSelfNotification ==
  (/\ event.kind = "task"
   /\ Truthy(event.after.assignedTo)
   /\ event.after.assignedTo = event.after.updatedBy)
  => outbox = <<>>

\* the elements of a sequence
Range(seq) == {seq[i] : i \in 1..Len(seq)}

\* the delivery calls made to user id
CallsTo(id) == {i \in 1..Len(outbox) : outbox[i].to = id}

\* C7: the users sendCommentNotification sets out to notify are the task's
\* assignee and the users mentioned in the text, without the comment's
\* createdBy; each of them once, and no user gets two delivery calls.
C7_CommentRecipients ==
  (event.kind = "comment" /\ loc.resolved)
  => LET assignee == IF event.task.assignedTo \in {Undefined, Null, ""}
                     THEN {} ELSE {event.task.assignedTo}
         expected == (assignee \cup event.mentioned) \ {event.comment.createdBy}
     IN /\ Range(loc.notify) = expected
        /\ Len(loc.notify) = Cardinality(expected)
        /\ event.comment.createdBy \notin Range(loc.notify)
        /\ \A i \in 1..Len(outbox) : outbox[i].to \in expected
        /\ \A id \in expected : Cardinality(CallsTo(id)) <= 1

\* the assignee is mentioned twice and gets one delivery call
C7_Witness ==
  /\ event.kind = "comment"
  /\ loc.pc = "done"
  /\ event.task.assignedTo = "u2"
  /\ event.comment.createdBy = "u1"
  /\ event.comment.text = Mention("u", "2") \o Mention("u", "2")
  /\ Len(outbox) = 1
  /\ outbox[1].to = "u2"

\* the category each handler checks
CategoryOf(kind) ==
  CASE kind = "task"     -> "taskAssigned"
    [] kind = "reminder" -> "dueReminders"
    [] kind = "comment"  -> "comments"
    [] OTHER             -> "none"

\* the users still waiting in the loop of the handler
Waiting ==
  Range(loc.queue) \cup {loc.groups[i].user : i \in 1..Len(loc.groups)}

\* C8: in sendTaskAssignedEmail, sendDueDateReminders and
\* sendCommentNotification a user whose document was read is passed over
\* for the preference exactly when emailPreferences is an object whose
\* field of the handler's category is false; with emailPreferences absent
\* or null, the field absent, null, true or anything else, the handler goes
\* on to the delivery call for that user.
C8_PreferenceGate ==
  LET off == loc.seen.prefsKind = "object" /\ loc.seen.field = JsFalse
  IN /\ loc.seen.cat # "none" => loc.seen.cat = CategoryOf(event.kind)
     /\ (loc.seen.cat # "none" /\ loc.seen.exists)
          => loc.gate = IF off THEN "filtered" ELSE "passed"
     /\ loc.gate = "filtered"
          => /\ loc.seen.exists /\ off
             /\ loc.pc # "send"
             /\ loc.seen.id \in loc.skipped
             /\ loc.seen.id \notin Waiting \ {loc.seen.id}
             /\ event.kind \in {"task", "comment"} => CallsTo(loc.seen.id) = {}
     /\ loc.gate = "passed"
          => /\ loc.seen.exists /\ ~off
             /\ \/ loc.pc \in {"getProject", "getTenant", "getAssigner", "send"}
                \/ loc.result = "failure"
                \/ CallsTo(loc.seen.id) # {}

\* emailPreferences is an object whose dueReminders is null: the digest is
\* sent
C8_Witness ==
  /\ event.kind = "reminder"
  /\ loc.gate = "passed"
  /\ loc.seen.prefsKind = "object"
  /\ loc.seen.field = Null
  /\ loc.pc = "send"

\* the digests of the run sent to user id for a tenant
DigestsFor(id, tenant) ==
  {i \in CallsTo(id) : outbox[i].where.tenant = tenant}

\* the tasks grouped in the run for user id in a tenant
FoundFor(id, tenant) ==
  {f \in loc.found : f.assignedTo = id /\ f.where.tenant = tenant}

\* C9: in a reminder run that meets no failure, every user whose document
\* exists and does not disable dueReminders, and who is assigned a due task
\* of a tenant, gets exactly one digest for that tenant, and it lists all
\* the due tasks of the tenant assigned to the user.
C9_OneDigestPerTenant ==
  (/\ event.kind = "reminder"
   /\ loc.pc = "done"
   /\ loc.result = "success"
   /\ \A i \in 1..Len(outbox) : outbox[i].ok)
  => \A id \in UserIds, t \in Range(Tenants) :
       (FoundFor(id, t) # {} /\ id \notin loc.skipped)
       => /\ Cardinality(DigestsFor(id, t)) = 1
          /\ \A i \in DigestsFor(id, t) :
               outbox[i].n = Cardinality(FoundFor(id, t))

FailedAt ==
  IF loc.result # "failure" THEN {}
  ELSE IF loc.queue # <<>> THEN {Head(loc.queue)}
  ELSE IF loc.groups # <<>> THEN {Head(loc.groups).user}
  ELSE {}

\* C11: when a run of sendCommentNotification has ended, every recipient it
\* set out to notify, other than the one whose lookup or delivery call
\* failed, was handled: passed over for a missing document or a disabled
\* preference, or given its delivery call.
C11_CommentErrorIsolated ==
  (event.kind = "comment" /\ loc.pc = "done" /\ loc.resolved)
  => \A id \in Range(loc.notify) \ FailedAt :
       id \in loc.skipped \/ CallsTo(id) # {}

\* C12: when a reminder run that read the tenants has ended, nothing but the
\* recipient, project or tenant that met a failure is left unhandled: the
\* last tenant was reached, its last project was reached unless the read of
\* its projects failed, and no assignee of that project waits behind the
\* one being handled.
C12_ReminderErrorIsolated ==
  (event.kind = "reminder" /\ loc.pc = "done" /\ loc.t > 0)
  => /\ loc.t = Len(Tenants)
     /\ loc.p = 0 \/ loc.p = Len(ProjectsOf(Tenants[loc.t]))
     /\ Len(loc.groups) <= 1

\* C13: a run of sendInviteEmail that met an error after the guard (the
\* delivery service reported one, or a lookup, the role or an update
\* failed) and has ended returns a failure result and has written
\* emailError and emailAttemptedAt on the invite; emailSent is not true
\* unless another run delivered.
C13_ErrorMarksFailed ==
  \A r \in Runs :
    (runs[r].pc = "done" /\ runs[r].error # Undefined)
    => /\ runs[r].result = "failure"
       /\ invite.emailError # Undefined
       /\ invite.emailAttemptedAt # NoTime
       /\ (\A q \in Runs : runs[q].result # "success")
            => invite.emailSent # JsTrue

\* C14: a run of sendTaskAssignedEmail whose delivery call was answered
\* with an error, returned as a value or raised, ends with a failure
\* result.
C14_TaskDeliveryErrorFails ==
  (/\ event.kind = "task"
   /\ loc.pc = "done"
   /\ \E i \in 1..Len(outbox) : ~outbox[i].ok)
  => loc.result = "failure"

\* C15: a run of sendInviteEmail whose delivery call succeeded and whose
\* update of emailSent, emailSentAt and emailId was refused does not end
\* with a failure result and writes no emailError on the invite.
C15_MarkSentBestEffort ==
  \A r \in Runs :
    (/\ runs[r].pc = "done"
     /\ \E i \in CallsOf(r) : outbox[i].ok)
    => /\ runs[r].result # "failure"
       /\ invite.emailError # "update failed"

\* C16: no run of a handler ends by throwing: every run that has ended
\* returned null, a success result or a failure result.
C16_NoUncaughtException ==
  /\ \A r \in Runs :
       runs[r].pc = "done" => runs[r].result \in {"null", "success", "failure"}
  /\ loc.pc = "done" => loc.result \in {"null", "success", "failure"}

\* the fields of the invite that sendInviteEmail updates
EmailFields ==
  {"emailSent", "emailSentAt", "emailId", "emailError", "emailAttemptedAt"}

\* C17: every step leaves the event's documents as they are and changes
\* the stored invite in no field but emailSent, emailSentAt, emailId,
\* emailError and emailAttemptedAt; an update is made only by a run of
\* sendInviteEmail at one of its two update calls, never by a run of
\* sendTaskAssignedEmail, sendDueDateReminders or sendCommentNotification.
C17_OnlyEmailFields ==
  [][/\ event' = event
     /\ \A f \in (DOMAIN invite) \ EmailFields : invite'[f] = invite[f]
     /\ \A r \in Runs :
          runs'[r].writes # runs[r].writes
          => /\ event.kind = "invite"
             /\ runs[r].pc \in {"markSent", "markFailed"}
     /\ (invite' # invite \/ clock' # clock)
          => \E r \in Runs : runs'[r].writes = runs[r].writes + 1
     /\ event.kind # "invite" => invite' = NoInvite]_vars

\* both updates were made on one invite: its status, invitedBy and role are
\* those it was created with
C17_Witness ==
  /\ event.kind = "invite"
  /\ invite.emailSent = JsTrue
  /\ invite.emailError # Undefined
  /\ invite.status = "pending"
  /\ invite.role = event.created.role
  /\ invite.invitedBy = event.created.invitedBy

\* the tasks grouped in the run for user id, in any tenant and project
FoundOf(id) == {f \in loc.found : f.assignedTo = id}

\* C18: in a reminder run a task document enters a digest exactly when it
\* has an assignee, a status other than "done" and a dueDate from today
\* 00:00 up to, not including, the day after tomorrow 00:00; a digest is
\* sent only to a user whose document exists and whose dueReminders is not
\* false, and lists the tasks entered for the user in its project; in a run
\* that met no failure a user gets a digest exactly when tasks were entered
\* for the user and the user was not passed over.
C18_DigestRecipients ==
  event.kind = "reminder"
  => /\ loc.last.id > 0
          => LET d == loc.last.doc
             IN ([where |-> loc.last.where, id |-> loc.last.id,
                  assignedTo |-> d.assignedTo] \in loc.found)
                <=> /\ d.assignedTo \in UserIds
                    /\ d.status # "done"
                    /\ d.dueDate \in {0, 1}
     /\ loc.pc = "send"
          => /\ loc.seen.id = Head(loc.groups).user
             /\ loc.seen.exists
             /\ ~(loc.seen.prefsKind = "object" /\ loc.seen.field = JsFalse)
     /\ \A i \in 1..Len(outbox) :
          /\ outbox[i].n >= 1
          /\ outbox[i].n =
               Cardinality({f \in FoundOf(outbox[i].to) :
                              f.where = outbox[i].where})
     /\ (/\ loc.pc = "done"
         /\ loc.result = "success"
         /\ \A i \in 1..Len(outbox) : outbox[i].ok)
          => \A id \in UserIds :
               /\ CallsTo(id) # {} => FoundOf(id) # {}
               /\ (FoundOf(id) # {} /\ id \notin loc.skipped)
                    => \A f \in FoundOf(id) :
                         \E i \in CallsTo(id) : outbox[i].where = f.where

\* a run without failure: u1 has two due tasks and gets a digest, u2 has a
\* due task and is passed over
C18_Witness ==
  /\ event.kind = "reminder"
  /\ loc.pc = "done"
  /\ loc.result = "success"
  /\ \A i \in 1..Len(outbox) : outbox[i].ok
  /\ Cardinality(FoundOf("u1")) = 2
  /\ CallsTo("u1") # {}
  /\ FoundOf("u2") # {}
  /\ "u2" \in loc.skipped
  /\ CallsTo("u2") = {}

\* C19: a task assigned to a user whose document was read with
\* emailPreferences.taskAssigned false ends sendTaskAssignedEmail with no
\* delivery call and without a failure result.
C19_DisabledAssigneeSkipped ==
  (/\ event.kind = "task"
   /\ loc.seen.exists
   /\ loc.seen.prefsKind = "object"
   /\ loc.seen.field = JsFalse)
  => /\ loc.pc = "done"
     /\ loc.result = "null"
     /\ loc.result # "failure"
     /\ outbox = <<>>
     /\ loc.reads = 1

\* the task goes from nobody to u2, assigned by u1; u2 has taskAssigned
\* false
C19_Witness ==
  /\ event.kind = "task"
  /\ event.before.assignedTo = Null
  /\ event.after.assignedTo = "u2"
  /\ event.after.updatedBy = "u1"
  /\ loc.seen.id = "u2"
  /\ loc.seen.exists
  /\ loc.seen.prefsKind = "object"
  /\ loc.seen.field = JsFalse
  /\ loc.pc = "done"

\* C20: a user document read and found absent is no error.  The step that
\* read it makes no delivery call for the user and gives no failure
\* result: sendTaskAssignedEmail ends with null; sendCommentNotification
\* and sendDueDateReminders go on with the next recipient, project or
\* tenant, or end with success after the last one.  A comment run that
\* ends with success has handled every recipient it collected.
C20_LookupMissIsNoError ==
  /\ (loc.seen.cat # "none" /\ ~loc.seen.exists)
       => /\ loc.seen.id \in loc.skipped
          /\ loc.gate = "none"
          /\ loc.result # "failure"
          /\ event.kind = "task"
               => loc.pc = "done" /\ loc.result = "null" /\ outbox = <<>>
          /\ event.kind = "comment"
               => /\ CallsTo(loc.seen.id) = {}
                  /\ loc.seen.id \notin Range(loc.queue)
                  /\ \/ loc.pc = "getUser" /\ loc.queue # <<>>
                     \/ loc.pc = "done" /\ loc.result = "success"
                                        /\ loc.queue = <<>>
          /\ event.kind = "reminder"
               => \/ loc.pc = "getUser" /\ loc.groups # <<>>
                                        /\ Head(loc.groups).user # loc.seen.id
                  \/ loc.pc \in {"queryTasks", "getProjects"}
                  \/ loc.pc = "done" /\ loc.result = "success"
                       /\ loc.t = Len(Tenants)
                       /\ loc.p = Len(ProjectsOf(Tenants[loc.t]))
  /\ (event.kind = "comment" /\ loc.pc = "done" /\ loc.result = "success")
       => \A id \in Range(loc.notify) :
            id \in loc.skipped \/ CallsTo(id) # {}

\* u1's document is absent, u2 behind it in the loop gets the delivery call
\* and the run ends with success
C20_Witness ==
  /\ event.kind = "comment"
  /\ loc.pc = "done"
  /\ loc.result = "success"
  /\ loc.notify = <<"u1", "u2">>
  /\ loc.skipped = {"u1"}
  /\ CallsTo("u1") = {}
  /\ CallsTo("u2") # {}

\* the runs that stopped after their delivery call succeeded and before
\* their update of emailSent
StoppedAfterDelivery ==
  {r \in Runs : /\ runs[r].pc = "crashed"
                /\ runs[r].emailId # NoId
                /\ runs[r].error = Undefined}

\* C21: a run of sendInviteEmail that stops after its delivery call
\* succeeded and before the update of emailSent has delivered and written
\* nothing: unless another run wrote it, emailSent is not true on the
\* invite, and every run handed the invite then, as stored or as attached
\* to the event, passes the guard.
C21_CrashLeavesUnsent ==
  \A r \in StoppedAfterDelivery :
    /\ \E i \in CallsOf(r) : outbox[i].ok
    /\ runs[r].writes = 0
    /\ (\A q \in Runs : runs[q].result # "success")
         => /\ invite.emailSent # JsTrue
            /\ \A q \in Runs \ {r} :
                 (Started(q) /\ runs[q].src # "none")
                 => /\ ~runs[q].docSent
                    /\ runs[q].result # "null"

\* the first run stopped after its delivery, the second run was handed the
\* stored invite afterwards and delivered again
C21_Witness ==
  /\ 1 \in StoppedAfterDelivery
  /\ runs[2].src = "current"
  /\ Cardinality(OkCalls) = 2
  /\ outbox[1].run = 1
  /\ outbox[2].run = 2
  /\ invite.emailSent # JsTrue

\* the place of user id in the recipients of the comment, 0 if none
PlaceIn(seq, id) ==
  IF \E i \in 1..Len(seq) : seq[i] = id
  THEN CHOOSE i \in 1..Len(seq) : seq[i] = id
  ELSE 0

\* the delivery calls of the run for user id at a place
CallsAt(id, where) == {i \in CallsTo(id) : outbox[i].where = where}

\* C22: a run makes its delivery calls one after the other and none twice.
\* A run of sendInviteEmail and a run of sendTaskAssignedEmail make at most
\* one call; sendCommentNotification calls each recipient at most once, in
\* the order of the recipients, and a recipient still waiting in the loop
\* has no call; sendDueDateReminders calls each assignee of a project at
\* most once, and an assignee still waiting in the loop of the project has
\* no call for it.  A delivery that did not succeed is followed by no
\* second call for the recipient.
C22_SequentialNoRetry ==
  /\ event.kind = "invite"
       => \A r \in Runs : /\ Cardinality(CallsOf(r)) <= 1
                          /\ runs[r].calls = Cardinality(CallsOf(r))
  /\ event.kind = "task" => Len(outbox) <= 1
  /\ event.kind = "comment"
       => /\ \A id \in UserIds : Cardinality(CallsTo(id)) <= 1
          /\ \A i, j \in 1..Len(outbox) :
               i < j => /\ PlaceIn(loc.notify, outbox[i].to) > 0
                        /\ PlaceIn(loc.notify, outbox[i].to)
                             < PlaceIn(loc.notify, outbox[j].to)
          /\ loc.pc \in {"getUser", "send"}
               => \A id \in Range(loc.queue) : CallsTo(id) = {}
          /\ \A i \in 1..Len(outbox) :
               ~outbox[i].ok => \A j \in 1..Len(outbox) :
                                  outbox[j].to = outbox[i].to => j = i
  /\ event.kind = "reminder"
       => /\ \A i, j \in 1..Len(outbox) :
               (outbox[i].to = outbox[j].to /\ outbox[i].where = outbox[j].where)
               => i = j
          /\ loc.pc \in {"getUser", "send"}
               => \A k \in 1..Len(loc.groups) :
                    CallsAt(loc.groups[k].user,
                            [tenant |-> Tenants[loc.t],
                             project |-> ProjectsOf(Tenants[loc.t])[loc.p]]) = {}

\* the delivery to u1 is answered with an error; u1 gets no second call and
\* u2 behind it gets its call
C22_Witness ==
  /\ event.kind = "comment"
  /\ loc.pc = "done"
  /\ Len(outbox) = 2
  /\ outbox[1].to = "u1"
  /\ ~outbox[1].ok
  /\ outbox[2].to = "u2"
  /\ loc.result = "success"

\* the outcomes a run can give the platform: null (skipped), a success
\* result, a failure result
Outcomes == {"null", "success", "failure"}

\* null is given only at the guard: before any document read, delivery
\* call or update of the run
SkipOnlyAtGuard ==
  /\ \A r \in Runs :
       runs[r].result = "null"
       => /\ runs[r].calls = 0
          /\ runs[r].writes = 0
          /\ runs[r].error = Undefined
  /\ loc.result = "null" => loc.reads = 0 /\ outbox = <<>>

\* an awaited call of run r is answered
InviteAnswer(r) ==
  \/ \E ok \in BOOLEAN : InviteLookup(r, ok)
  \/ \E o \in SendOutcomes : InviteSend(r, o)
  \/ \E ok \in BOOLEAN : InviteMarkSent(r, ok)
  \/ \E ok \in BOOLEAN : InviteMarkFailed(r, ok)

\* a step of the run of one of the three other handlers
HandlerStep ==
  \/ TaskStart
  \/ \E ok \in BOOLEAN, user \in UserDocs("taskAssigned") : TaskGetUser(ok, user)
  \/ \E ok \in BOOLEAN : TaskGetProject(ok)
  \/ \E ok \in BOOLEAN : TaskGetTenant(ok)
  \/ \E ok \in BOOLEAN : TaskGetAssigner(ok)
  \/ \E o \in SendOutcomes : TaskSend(o)
  \/ \E ok \in BOOLEAN : ReminderGetTenants(ok)
  \/ \E ok \in BOOLEAN : ReminderGetProjects(ok)
  \/ \E ok \in BOOLEAN, n \in 0..MaxTasks : ReminderQueryTasks(ok, n)
  \/ \E task \in TaskDocs : ReminderGroupTask(task)
  \/ \E ok \in BOOLEAN, user \in UserDocs("dueReminders") : ReminderGetUser(ok, user)
  \/ \E o \in SendOutcomes : ReminderSend(o)
  \/ \E ok \in BOOLEAN : CommentGetTask(ok)
  \/ \E ok \in BOOLEAN : CommentGetProject(ok)
  \/ \E ok \in BOOLEAN : CommentGetTenant(ok)
  \/ \E ok \in BOOLEAN : CommentGetCommenter(ok)
  \/ \E ok \in BOOLEAN, user \in UserDocs("comments") : CommentGetUser(ok, user)
  \/ \E o \in SendOutcomes : CommentSend(o)

\* every awaited call is answered in the end, with a value or an error
LiveSpec ==
  /\ Spec
  /\ \A r \in Runs : WF_vars(InviteAnswer(r))
  /\ WF_vars(HandlerStep)

\* C23, termination alone: with every awaited call answered in the end, a
\* run that was started and does not stop with its process comes to its
\* end.
C23_RunsEnd ==
  /\ \A r \in Runs : Started(r) ~> runs[r].pc \in {"done", "crashed"}
  /\ loc.pc = "start" ~> loc.pc = "done"

\* C23: with every awaited call answered in the end, a run that was started
\* and does not stop with its process ends with one of the three outcomes,
\* and null is given only at the guard, before any document read, delivery
\* call or update.
C23_TerminalOutcome ==
  /\ \A r \in Runs :
       Started(r) ~> \/ runs[r].pc = "crashed"
                     \/ runs[r].pc = "done" /\ runs[r].result \in Outcomes
  /\ loc.pc = "start" ~> (loc.pc = "done" /\ loc.result \in Outcomes)
  /\ []SkipOnlyAtGuard

\* C24: emailSent is true on the invite only when a delivery call of a run
\* of sendInviteEmail succeeded and that run wrote it, with the id the
\* delivery gave; a run is at the update of emailSent, or has returned a
\* success result, only after its own delivery call succeeded.
C24_SentOnlyAfterDelivery ==
  /\ invite.emailSent = JsTrue
       => \E i \in OkCalls :
            /\ outbox[i].handler = "invite"
            /\ invite.emailId = outbox[i].id
            /\ runs[outbox[i].run].result = "success"
            /\ runs[outbox[i].run].emailId = outbox[i].id
  /\ \A r \in Runs :
       (runs[r].pc = "markSent" \/ runs[r].result = "success")
       => \E i \in CallsOf(r) : outbox[i].ok /\ outbox[i].id = runs[r].emailId

\* the first delivery failed, the second succeeded and its run wrote
\* emailSent
C24_Witness ==
  /\ event.kind = "invite"
  /\ Len(outbox) = 2
  /\ ~outbox[1].ok
  /\ outbox[2].ok
  /\ invite.emailSent = JsTrue
  /\ invite.emailId = 2

\* C25: a run of sendInviteEmail makes at most one delivery call and
\* applies at most one of its two updates.  A run that returned a success
\* result met no error and applied the update of emailSent alone; a run
\* that applied the update of emailSent returned a success result; a run
\* that returned a failure result did not apply the update of emailSent.
\* With one run only, the invite never holds both emailSent true and an
\* emailError.
C25_OneRecordPerRun ==
  event.kind = "invite"
  => /\ \A r \in Runs :
          /\ runs[r].calls <= 1
          /\ Cardinality(CallsOf(r)) <= 1
          /\ runs[r].result = "success"
               => /\ runs[r].error = Undefined
                  /\ runs[r].writes = 1
                  /\ invite.emailSent = JsTrue
          /\ (runs[r].emailId # NoId /\ invite.emailId = runs[r].emailId)
               => runs[r].result = "success"
          /\ runs[r].result = "failure"
               => /\ runs[r].error # Undefined
                  /\ invite.emailError # Undefined
                  /\ runs[r].emailId = NoId \/ invite.emailId # runs[r].emailId
     /\ Cardinality({r \in Runs : Started(r)}) <= 1
          => ~(invite.emailSent = JsTrue /\ invite.emailError # Undefined)

\* one run, delivered: its update of emailSent is refused, the update of
\* emailError is applied
C25_Witness ==
  /\ event.kind = "invite"
  /\ runs[1].result = "failure"
  /\ runs[1].calls = 1
  /\ runs[1].writes = 2
  /\ outbox[1].ok
  /\ invite.emailError = "update failed"
  /\ invite.emailSent # JsTrue
  /\ ~Started(2)

=============================================================================
